---------------------------- MODULE Spec2Model ----------------------------
(***************************************************************************)
(* Model of hackerone_fetch_domains.py: the rate-limited HTTP client       *)
(* (make_api_request), the program paginator with its cache                *)
(* (is_cache_valid, fetch_all_programs), the domain classifier             *)
(* (categorize_domain), the scope extractor (extract_domains_from_program) *)
(* and the concurrent aggregator (main).                                   *)
(*                                                                         *)
(* Strings the code takes apart (asset identifiers, hostnames) are         *)
(* sequences of one-character strings.  Sleep durations are in ticks of a  *)
(* tenth of a second, the clock of the cache in seconds.                   *)
(***************************************************************************)
EXTENDS Integers, Sequences, FiniteSets, TLC

(***************************************************************************)
(* Configuration, lines 18-26.                                             *)
(***************************************************************************)
MAX_REQUESTS_PER_MINUTE == 600
MAX_RETRIES == 3
PAGE_SIZE == 100
MAX_WORKERS == 10
CACHE_EXPIRY_DAYS == 30
TicksPerSecond == 10
\* 60 / MAX_REQUESTS_PER_MINUTE seconds, in ticks
RATE_LIMIT_DELAY == (60 * TicksPerSecond) \div MAX_REQUESTS_PER_MINUTE
\* a semaphore with a single slot
SemaphoreCap_Single == MAX_REQUESTS_PER_MINUTE \div MAX_REQUESTS_PER_MINUTE
\* Semaphore(MAX_REQUESTS_PER_MINUTE // 60)
SemaphoreCap == MAX_REQUESTS_PER_MINUTE \div 60
\* int(response.headers.get('Retry-After', 10)): the default, in seconds
DefaultRetryAfter == 10
\* timedelta(days=CACHE_EXPIRY_DAYS), in seconds
CacheExpiry == CACHE_EXPIRY_DAYS * 24 * 60 * 60

(***************************************************************************)
(* Bounds of the model.                                                    *)
(***************************************************************************)
\* programs the listing endpoint serves in one run
MaxPrograms == 2
\* pages of the listing that carry a next-page link or items
MaxPages == 3
\* responses other than 200 the listing endpoint serves in one run (when the
\* API is not rate limiting every request)
MaxFaults == 3
\* responses other than 200 the structured-scopes endpoint serves in one run
MaxScopeFaults == 1
\* length of the strings categorize_domain is applied to on its own
MaxLen == 5
\* invocations of fetch_all_programs that follow one another
MaxInvocations == 2

(***************************************************************************)
(* Python string operations on sequences of characters.                    *)
(***************************************************************************)
UpperCase == <<"A","B","C","D","E","F","G","H","I","J","K","L","M",
               "N","O","P","Q","R","S","T","U","V","W","X","Y","Z">>
LowerCase == <<"a","b","c","d","e","f","g","h","i","j","k","l","m",
               "n","o","p","q","r","s","t","u","v","w","x","y","z">>
WhiteSpace == {" ", "\t", "\n", "\r"}

Last(s) == s[Len(s)]

\* sep occurs in s at position i
MatchAt(s, sep, i) ==
    /\ i >= 1
    /\ i + Len(sep) - 1 <= Len(s)
    /\ \A k \in 1..Len(sep) : s[i + k - 1] = sep[k]

\* str.find: the first position >= from where sep occurs, 0 when there is none
RECURSIVE Find(_, _, _)
Find(s, sep, from) ==
    IF from + Len(sep) - 1 > Len(s) THEN 0
    ELSE IF MatchAt(s, sep, from) THEN from
    ELSE Find(s, sep, from + 1)

\* c in s
Contains(s, c) == \E i \in 1..Len(s) : s[i] = c

\* str.split(sep): the pieces between the non-overlapping occurrences of sep,
\* found left to right
RECURSIVE Split(_, _)
Split(s, sep) ==
    LET i == Find(s, sep, 1)
    IN  IF i = 0 THEN <<s>>
        ELSE <<SubSeq(s, 1, i - 1)>> \o Split(SubSeq(s, i + Len(sep), Len(s)), sep)

\* str.lower
LowerChar(c) ==
    IF \E i \in 1..Len(UpperCase) : UpperCase[i] = c
    THEN LowerCase[CHOOSE i \in 1..Len(UpperCase) : UpperCase[i] = c]
    ELSE c
RECURSIVE Lower(_)
Lower(s) == IF s = << >> THEN << >> ELSE <<LowerChar(Head(s))>> \o Lower(Tail(s))

\* str.strip
RECURSIVE LStrip(_)
LStrip(s) == IF s # <<>> /\ s[1] \in WhiteSpace THEN LStrip(Tail(s)) ELSE s
RECURSIVE RStrip(_)
RStrip(s) ==
    IF s # <<>> /\ Last(s) \in WhiteSpace THEN RStrip(SubSeq(s, 1, Len(s) - 1)) ELSE s
Strip(s) == RStrip(LStrip(s))

\* str.startswith
StartsWith(s, p) == MatchAt(s, p, 1)

(***************************************************************************)
(* categorize_domain, lines 101-119.  "none" stands for None.              *)
(***************************************************************************)
\* re.match(r'^\*\.[^.]+\..*\*', s): "*." , one or more characters that are
\* not a dot, a dot, anything, a "*"
MatchesWildcardTld(s) ==
    /\ StartsWith(s, <<"*", ".">>)
    /\ LET d == Find(s, <<".">>, 3)
       IN  /\ d > 3
           /\ \E k \in (d + 1)..Len(s) : s[k] = "*"

categorize_domain(domain) ==
    IF domain = <<>> \/ ~Contains(domain, ".") THEN "none"
    ELSE LET clean_domain == Split(domain, <<":">>)[1]
             parts == Split(clean_domain, <<".">>)
         IN  IF MatchesWildcardTld(clean_domain) THEN "wildcard_tld"
             ELSE IF /\ StartsWith(clean_domain, <<"*", ".">>)
                     /\ Len(parts) >= 3
                     /\ ~Contains(Last(parts), "*")
                  THEN "simple_wildcard"
             ELSE IF ~Contains(clean_domain, "*") THEN "standard"
             ELSE "none"

Categories == {"standard", "simple_wildcard", "wildcard_tld"}

\* url.split('//')[-1].split('/')[0].lower().strip(), line 134
Hostname(url) == Strip(Lower(Split(Last(Split(url, <<"/", "/">>)), <<"/">>)[1]))

(***************************************************************************)
(* The data the stub API serves.                                           *)
(***************************************************************************)
\* A program object of the listing: program.get('attributes', {}).get('handle')
\* reads hasAttributes, hasHandle and handle.
Program(n) ==
    [id |-> n, hasAttributes |-> n # 4, hasHandle |-> n \in 1..3,
     handle |-> IF n \in 1..3 THEN n ELSE 0]
\* the programs the listing may serve, by id
ProgramIds == 1..4

\* A structured-scope entry: scope.get('attributes', {}).get('asset_type') and
\* scope['attributes']['asset_identifier'].
ScopeEntry(type, hasId, ident) ==
    [hasAttributes |-> TRUE, asset_type |-> type, hasIdentifier |-> hasId, asset_identifier |-> ident]
NoAttributesEntry ==
    [hasAttributes |-> FALSE, asset_type |-> "", hasIdentifier |-> FALSE, asset_identifier |-> <<>>]

UrlFoo == <<"h","t","t","p","s",":","/","/","F","o","o",".","E","X","A","M","P","L","E",".",
            "c","o","m",":","4","4","3","/","p","a","t","h">>
UrlWildAB == <<"*",".","a",".","b">>
UrlWildTld == <<"h","t","t","p",":","/","/","*",".","a",".","*","/">>
UrlPlain == <<" ","x",".","y"," ">>
UrlNoDot == <<"l","o","c","a","l","h","o","s","t">>
Cidr == <<"1","0",".","0",".","0",".","0","/","8">>
\* a URL without a host: the hostname is the empty string
UrlNoHost == <<"h","t","t","p",":","/","/","/","x">>

\* the body of the structured_scopes endpoint for a handle
ScopeOf(handle) ==
    CASE handle = 1 -> << ScopeEntry("URL", TRUE, UrlFoo), ScopeEntry("CIDR", TRUE, Cidr),
                          ScopeEntry("URL", TRUE, UrlWildAB) >>
      [] handle = 2 -> << ScopeEntry("URL", TRUE, UrlWildAB), NoAttributesEntry,
                          ScopeEntry("URL", TRUE, UrlWildTld), ScopeEntry("URL", TRUE, UrlPlain),
                          ScopeEntry("URL", TRUE, UrlNoDot), ScopeEntry("URL", TRUE, UrlNoHost) >>
      [] handle = 3 -> << ScopeEntry("URL", TRUE, UrlPlain), ScopeEntry("URL", FALSE, <<>>) >>
      [] OTHER -> << >>

\* Hostname and categorize_domain, computed once for every asset identifier the
\* stub serves and looked up from then on.
Handles == 1..3
AssetIdentifiers ==
    UNION {{ScopeOf(h)[k].asset_identifier : k \in 1..Len(ScopeOf(h))} : h \in Handles}
HostTable == {<<u, Hostname(u)>> : u \in AssetIdentifiers}
HostnameOf(u) == (CHOOSE p \in HostTable : p[1] = u)[2]
CategoryTable == {<<p[2], categorize_domain(p[2])>> : p \in HostTable}
CategoryOf(h) == (CHOOSE p \in CategoryTable : p[1] = h)[2]

\* What make_api_request returns: None, or a decoded body with its 'data' array
\* and whether 'links' holds 'next'.
NoneRet == [none |-> TRUE, data |-> << >>, hasNext |-> FALSE]
Body(data, hasNext) == [none |-> FALSE, data |-> data, hasNext |-> hasNext]

\* the sequence of the programs with the ids of S, in ascending order
RECURSIVE Ascending(_)
Ascending(S) ==
    IF S = {} THEN << >>
    ELSE LET m == CHOOSE x \in S : \A y \in S : x <= y
         IN  <<Program(m)>> \o Ascending(S \ {m})

\* the items a page of the listing may hold: at most n programs not yet served,
\* in the order of the listing
AscPrograms(lo, n) ==
    {Ascending(S) : S \in {T \in SUBSET {i \in ProgramIds : i > lo} : Cardinality(T) <= n}}

\* the stub of the end-to-end case: pages of PAGE_SIZE and 37 programs, then a
\* terminal page without a next link
StubSizes == <<PAGE_SIZE, 37>>
StubPage(p) ==
    IF p \in 1..Len(StubSizes)
    THEN Body([k \in 1..StubSizes[p] |->
                 [id |-> 1000 * p + k, hasAttributes |-> TRUE, hasHandle |-> TRUE,
                  handle |-> 1000 * p + k]], TRUE)
    ELSE Body(<< >>, FALSE)

(***************************************************************************)
(* State.                                                                  *)
(***************************************************************************)
VARIABLES
    now,          \* the wall clock, in seconds
    cache,        \* PROGRAMS_CACHE_FILE: exists, mtime, decodable, programs
    cache0,       \* the cache file as it was when the run began
    rateLimited,  \* the API answers 429 to every request
    stub,         \* "free": any listing; "sized": the pages of StubPage
    faults,       \* responses other than 200 the endpoint in use has served
    srvLast,      \* id of the last program the listing has served
    srvCount,     \* programs the listing has served
    sem,          \* request_semaphore
    mpc,          \* where the main thread is
    programs,     \* programs (fetch_all_programs), then programs (main)
    page,         \* page (fetch_all_programs)
    requested,    \* page numbers passed to make_api_request, in order
    pageRets,     \* what those calls returned, in order
    pageSleeps,   \* inter-page sleeps taken
    nsub,         \* futures submitted
    tstate,       \* a future: "none", "queued", "running", "done", "raised"
    tres,         \* the value a done future holds
    completed,    \* futures in completion order (as_completed)
    merged,       \* futures main has taken from as_completed
    all_domains,  \* all_domains (main)
    written,      \* the three output files are written
    cpc,          \* a caller's place in make_api_request
    attempt,      \* attempt (make_api_request)
    ret,          \* the value a call returned
    outcomes,     \* the responses a call got, in order
    sleeps,       \* the sleeps a call took, in ticks, in order
    served,       \* the body of the 200 the API answered a call with
    invocation,   \* which invocation of fetch_all_programs this is
    prior,        \* what the invocation before this one returned, and when
    input_domain, \* the argument of categorize_domain under test
    category,     \* what categorize_domain returned for it, "pending" before
    valid         \* what is_cache_valid returned, "pending" before

vars == <<now, cache, cache0, rateLimited, stub, faults, srvLast, srvCount, sem, mpc,
          programs, page, requested, pageRets, pageSleeps, nsub, tstate, tres, completed,
          merged, all_domains, written, cpc, attempt, ret, outcomes, sleeps, served,
          invocation, prior, input_domain, category, valid>>

envVars == <<rateLimited, stub, cache0>>
invokeVars == <<invocation, prior>>
pureVars == <<input_domain, category, valid>>
cacheVars == <<now, cache>>
fetchVars == <<programs, page, requested, pageRets, pageSleeps>>
poolVars == <<nsub, tstate, tres, completed, merged, all_domains, written>>
callVars == <<cpc, attempt, ret, outcomes, sleeps, served, sem, faults, srvLast, srvCount>>

MainThread == 0
Tasks == 1..MaxPrograms
Threads == {MainThread} \cup Tasks

EmptyDomains == [c \in Categories |-> {}]
LogCap == MAX_RETRIES + 1
Record(log, x) == IF Len(log) < LogCap THEN Append(log, x) ELSE log

NowAtStart == CacheExpiry + 1
NoCache == [exists |-> FALSE, mtime |-> 0, decodable |-> FALSE, programs |-> << >>]
CacheFile(mtime, decodable, progs) ==
    [exists |-> TRUE, mtime |-> mtime, decodable |-> decodable, programs |-> progs]
CacheSnapshots ==
    { <<Program(1), Program(2)>>, <<Program(2), Program(3)>>, <<Program(5)>> }
\* absent, or one second short of expiry, decodable or not
InitialCaches ==
    {NoCache}
    \cup {CacheFile(NowAtStart - CacheExpiry + 1, TRUE, p) : p \in CacheSnapshots}
    \cup {CacheFile(NowAtStart - CacheExpiry + 1, FALSE, << >>)}
\* expired by 0 or 1 second
ExpiredCaches ==
    {CacheFile(NowAtStart - CacheExpiry - d, dec, p) :
       d \in 0..1, dec \in BOOLEAN, p \in {<<Program(1)>>}}
\* seconds that may pass between the freshness test and os.utime
ElapsedChoices == {0, 1}

\* no invocation of fetch_all_programs has returned yet
NoPrior == [returned |-> FALSE, programs |-> << >>, at |-> 0, partial |-> FALSE]

InitCommon ==
    /\ invocation = 1 /\ prior = NoPrior
    /\ category = "pending" /\ valid = "pending"
    /\ now = NowAtStart
    /\ cache0 = cache
    /\ faults = 0 /\ srvLast = 0 /\ srvCount = 0
    /\ sem = SemaphoreCap
    /\ mpc = "start"
    /\ programs = << >> /\ page = 1 /\ requested = << >> /\ pageRets = << >>
    /\ pageSleeps = 0
    /\ nsub = 0
    /\ tstate = [i \in Tasks |-> "none"]
    /\ tres = [i \in Tasks |-> EmptyDomains]
    /\ completed = << >> /\ merged = 0
    /\ all_domains = EmptyDomains
    /\ written = FALSE
    /\ cpc = [t \in Threads |-> "idle"]
    /\ attempt = [t \in Threads |-> 0]
    /\ ret = [t \in Threads |-> NoneRet]
    /\ outcomes = [t \in Threads |-> << >>]
    /\ sleeps = [t \in Threads |-> << >>]
    /\ served = [t \in Threads |-> NoneRet]

Init ==
    /\ cache \in InitialCaches
    /\ InitCommon
    /\ input_domain = << >>
    /\ rateLimited \in BOOLEAN
    /\ stub = "free"

(***************************************************************************)
(* is_cache_valid, lines 28-34.                                            *)
(***************************************************************************)
\* the age test the wrong way round
is_cache_valid_Reversed(file, clock) ==
    IF ~file.exists THEN FALSE
    ELSE (clock - file.mtime) >= CacheExpiry

\* a file aged exactly the window still valid
is_cache_valid_Inclusive(file, clock) ==
    IF ~file.exists THEN FALSE
    ELSE (clock - file.mtime) <= CacheExpiry

is_cache_valid(file, clock) ==
    IF ~file.exists THEN FALSE
    ELSE (clock - file.mtime) < CacheExpiry

(***************************************************************************)
(* make_api_request, lines 36-64.  A caller is at "acquire" (entering the  *)
(* with block), "get" (about to issue requests.get), "sleep429" (in        *)
(* time.sleep(retry_after)), "backoff" (in the sleep of the except         *)
(* clause) or "ret" (returned, the value not yet used by the caller).      *)
(***************************************************************************)
RetryAfterSeconds == {3, DefaultRetryAfter}
RetryAfterTicks(seconds) == seconds * TicksPerSecond

\* What the API may answer to the next GET of caller t.
\*   ok200    200 with a JSON body
\*   r429     429, Retry-After absent or an integer
\*   r429bad  429 with a Retry-After that int() rejects
\*   err      a status >= 400 other than 429
\*   other    a status below 400 other than 200
\*   exc      requests.get raises (timeout, connection error)
Bodies(t) ==
    IF t = MainThread
    THEN IF stub = "sized" THEN {StubPage(page)}
         ELSE {Body(d, n) : d \in AscPrograms(srvLast, MaxPrograms - srvCount),
                            n \in IF page < MaxPages THEN BOOLEAN ELSE {FALSE}}
    ELSE {Body(ScopeOf(programs[t].handle), FALSE)}

Response(kind, retryAfter, body) == [kind |-> kind, retryAfter |-> retryAfter, body |-> body]

\* the faults the endpoint a caller uses may serve: the listing endpoint for
\* main, the structured-scopes endpoint for the tasks
FaultBudget(t) == IF t = MainThread THEN MaxFaults ELSE MaxScopeFaults

Responses(t) ==
    IF rateLimited
    THEN {Response("r429", ra, NoneRet) : ra \in RetryAfterSeconds}
    ELSE {Response("ok200", 0, b) : b \in Bodies(t)}
         \cup (IF faults < FaultBudget(t)
               THEN {Response("r429", ra, NoneRet) : ra \in RetryAfterSeconds}
                    \cup {Response(k, 0, NoneRet) : k \in {"r429bad", "err", "other", "exc"}}
               ELSE {})

\* a status >= 400 handled like an exception: slept on and retried
Disposition_RetryErrors(kind) ==
    CASE kind = "ok200" -> "return_json"
      [] kind = "r429" -> "sleep_continue"
      [] kind = "r429bad" -> "except"
      [] kind = "err" -> "except"
      [] kind = "other" -> "fallthrough"
      [] kind = "exc" -> "except"

\* lines 49-62: what the body of the loop does with a response
Disposition(kind) ==
    CASE kind = "ok200" -> "return_json"
      [] kind = "r429" -> "sleep_continue"
      [] kind = "r429bad" -> "except"
      [] kind = "err" -> "return_none"
      [] kind = "other" -> "fallthrough"
      [] kind = "exc" -> "except"

\* a 429 retried without using up an attempt
AttemptAfter_Free429(d, a) == IF d = "sleep_continue" THEN a ELSE a + 1

\* a status below 400 other than 200 retried without using up an attempt
AttemptAfter_FreeFallthrough(d, a) == IF d = "fallthrough" THEN a ELSE a + 1

\* line 39: the value of attempt in the iteration that follows one that
\* ended by disposition d
AttemptAfter(d, a) == a + 1

\* a backoff that does not grow with the attempt
BackoffDelay_Flat(a) == RATE_LIMIT_DELAY

\* line 62: RATE_LIMIT_DELAY * (attempt + 1)
BackoffDelay(a) == RATE_LIMIT_DELAY * (a + 1)

\* line 50: return response.json()
ReturnValue(body) == body

\* the slot kept when the call returns
Release_Leak(s) == s

\* line 38: leaving the with block releases the semaphore
Release(s) == s + 1

StartCall(t) ==
    /\ cpc' = [cpc EXCEPT ![t] = "acquire"]
    /\ attempt' = [attempt EXCEPT ![t] = 0]
    /\ ret' = [ret EXCEPT ![t] = NoneRet]
    /\ outcomes' = [outcomes EXCEPT ![t] = << >>]
    /\ sleeps' = [sleeps EXCEPT ![t] = << >>]
    /\ served' = [served EXCEPT ![t] = NoneRet]
    /\ UNCHANGED <<sem, faults, srvLast, srvCount>>

\* the caller takes the returned value; the call is over
EndCall(t) ==
    /\ cpc' = [cpc EXCEPT ![t] = "idle"]
    /\ attempt' = [attempt EXCEPT ![t] = 0]
    /\ ret' = [ret EXCEPT ![t] = NoneRet]
    /\ outcomes' = [outcomes EXCEPT ![t] = << >>]
    /\ sleeps' = [sleeps EXCEPT ![t] = << >>]
    /\ served' = [served EXCEPT ![t] = NoneRet]
    /\ UNCHANGED <<sem, faults, srvLast, srvCount>>

Returns(t, value) ==
    /\ cpc' = [cpc EXCEPT ![t] = "ret"]
    /\ ret' = [ret EXCEPT ![t] = value]
    /\ sem' = Release(sem)
    /\ attempt' = attempt

\* the slot given back at the end of an iteration and taken again for the next
Continues_Reacquire(t, d) ==
    LET a == AttemptAfter(d, attempt[t])
    IN  IF a < MAX_RETRIES
        THEN /\ cpc' = [cpc EXCEPT ![t] = "acquire"]
             /\ attempt' = [attempt EXCEPT ![t] = a]
             /\ sem' = Release(sem)
             /\ UNCHANGED ret
        ELSE Returns(t, NoneRet)

\* the end of one iteration of the loop that did not return
Continues(t, d) ==
    LET a == AttemptAfter(d, attempt[t])
    IN  IF a < MAX_RETRIES
        THEN /\ cpc' = [cpc EXCEPT ![t] = "get"]
             /\ attempt' = [attempt EXCEPT ![t] = a]
             /\ UNCHANGED <<ret, sem>>
        ELSE Returns(t, NoneRet)

Acquire(t) ==
    /\ cpc[t] = "acquire"
    /\ sem > 0
    /\ sem' = sem - 1
    /\ cpc' = [cpc EXCEPT ![t] = "get"]
    /\ UNCHANGED <<pureVars, invokeVars, envVars, cacheVars, fetchVars, poolVars, mpc>>
    /\ UNCHANGED <<attempt, ret, outcomes, sleeps, served, faults, srvLast, srvCount>>

Get(t) ==
    /\ cpc[t] = "get"
    /\ \E r \in Responses(t) :
         LET d == Disposition(r.kind)
         IN  /\ outcomes' = [outcomes EXCEPT ![t] = Record(@, r.kind)]
             /\ faults' = IF r.kind = "ok200" \/ rateLimited THEN faults ELSE faults + 1
             /\ IF r.kind = "ok200"
                THEN /\ served' = [served EXCEPT ![t] = r.body]
                     /\ IF t = MainThread /\ r.body.data # << >>
                        THEN /\ srvLast' = Last(r.body.data).id
                             /\ srvCount' = srvCount + Len(r.body.data)
                        ELSE UNCHANGED <<srvLast, srvCount>>
                ELSE UNCHANGED <<served, srvLast, srvCount>>
             /\ CASE d = "return_json" ->
                       /\ Returns(t, ReturnValue(r.body))
                       /\ UNCHANGED sleeps
                  [] d = "return_none" ->
                       /\ Returns(t, NoneRet)
                       /\ UNCHANGED sleeps
                  [] d = "sleep_continue" ->
                       /\ sleeps' = [sleeps EXCEPT ![t] = Record(@, RetryAfterTicks(r.retryAfter))]
                       /\ cpc' = [cpc EXCEPT ![t] = "sleep429"]
                       /\ UNCHANGED <<attempt, ret, sem>>
                  [] d = "except" ->
                       /\ sleeps' = [sleeps EXCEPT ![t] = Record(@, BackoffDelay(attempt[t]))]
                       /\ cpc' = [cpc EXCEPT ![t] = "backoff"]
                       /\ UNCHANGED <<attempt, ret, sem>>
                  [] d = "fallthrough" ->
                       /\ Continues(t, d)
                       /\ UNCHANGED sleeps
    /\ UNCHANGED <<pureVars, invokeVars, envVars, cacheVars, fetchVars, poolVars, mpc>>

\* time.sleep returns
Wake(t) ==
    /\ cpc[t] \in {"sleep429", "backoff"}
    /\ Continues(t, IF cpc[t] = "sleep429" THEN "sleep_continue" ELSE "except")
    /\ UNCHANGED <<outcomes, sleeps, served, faults, srvLast, srvCount>>
    /\ UNCHANGED <<pureVars, invokeVars, envVars, cacheVars, fetchVars, poolVars, mpc>>

(***************************************************************************)
(* fetch_all_programs, lines 66-99, as main calls it at line 146.          *)
(***************************************************************************)
\* main goes on at line 149 with the list fetch_all_programs returned
PoolEntry(list) == IF Len(list) = 0 THEN "collect" ELSE "submit"

\* lines 68-71: the cache is valid and json.load succeeds
LoadCache ==
    /\ mpc = "start"
    /\ is_cache_valid(cache, now)
    /\ cache.decodable
    /\ programs' = cache.programs
    /\ mpc' = PoolEntry(cache.programs)
    /\ UNCHANGED <<pureVars, invokeVars, envVars, cacheVars, poolVars, callVars>>
    /\ UNCHANGED <<page, requested, pageRets, pageSleeps>>

\* lines 68-71: the cache is valid and open or json.load raises; nothing
\* catches the exception, in fetch_all_programs or in main
LoadCacheFails ==
    /\ mpc = "start"
    /\ is_cache_valid(cache, now)
    /\ ~cache.decodable
    /\ mpc' = "cache_error"
    /\ UNCHANGED <<pureVars, invokeVars, envVars, cacheVars, fetchVars, poolVars, callVars>>

\* lines 73-76
BeginRefetch ==
    /\ mpc = "start"
    /\ ~is_cache_valid(cache, now)
    /\ programs' = << >>
    /\ page' = 1
    /\ mpc' = "page_call"
    /\ UNCHANGED <<pureVars, invokeVars, envVars, cacheVars, poolVars, callVars>>
    /\ UNCHANGED <<requested, pageRets, pageSleeps>>

\* lines 79-80: make_api_request(base_url, params) is called
RequestPage ==
    /\ mpc = "page_call"
    /\ requested' = Append(requested, page)
    /\ StartCall(MainThread)
    /\ mpc' = "page_wait"
    /\ UNCHANGED <<pureVars, invokeVars, envVars, cacheVars, poolVars>>
    /\ UNCHANGED <<programs, page, pageRets, pageSleeps>>

\* a failed page skipped instead of ending the loop
PageDecision_SkipFailed(r) ==
    IF r.none THEN "next"
    ELSE IF r.data = << >> THEN "break"
    ELSE IF r.hasNext THEN "next" ELSE "last"

\* lines 82-92: what the loop does with the value the call returned
PageDecision(r) ==
    IF r.none \/ r.data = << >> THEN "break"
    ELSE IF r.hasNext THEN "next" ELSE "last"

\* the page put in front of the accumulator
Extend_Prepend(list, data) == data \o list

\* line 85: programs.extend(data['data'])
Extend(list, data) == list \o data

PageReturn ==
    /\ mpc = "page_wait"
    /\ cpc[MainThread] = "ret"
    /\ LET r == ret[MainThread]
           d == PageDecision(r)
       IN  /\ pageRets' = Append(pageRets, r)
           /\ programs' = IF d = "break" THEN programs ELSE Extend(programs, r.data)
           /\ page' = IF d = "next" THEN page + 1 ELSE page
           /\ pageSleeps' = IF d = "next" THEN pageSleeps + 1 ELSE pageSleeps
           /\ mpc' = IF d = "next" THEN "page_call" ELSE "save"
    /\ EndCall(MainThread)
    /\ UNCHANGED <<pureVars, invokeVars, envVars, cacheVars, poolVars, requested>>

\* the file written only when no page failed
SaveCache_OnlyComplete ==
    /\ mpc = "save"
    /\ \E d \in ElapsedChoices :
         /\ now' = now + d
         /\ cache' = IF pageRets # << >> /\ Last(pageRets).none
                     THEN cache
                     ELSE CacheFile(now', TRUE, programs)
    /\ mpc' = "fetched"
    /\ UNCHANGED <<pureVars, invokeVars, envVars, fetchVars, poolVars, callVars>>

\* lines 94-98: json.dump(programs, f), os.utime(file, None)
SaveCache ==
    /\ mpc = "save"
    /\ \E d \in ElapsedChoices :
         /\ now' = now + d
         /\ cache' = CacheFile(now', TRUE, programs)
    /\ mpc' = "fetched"
    /\ UNCHANGED <<pureVars, invokeVars, envVars, fetchVars, poolVars, callVars>>

\* line 99: return programs; the locals of fetch_all_programs are gone and main
\* holds the list (the clock is read again only by a later run)
ReturnPrograms ==
    /\ mpc = "fetched"
    /\ programs' = programs
    /\ page' = 1 /\ requested' = << >> /\ pageRets' = << >> /\ pageSleeps' = 0
    /\ mpc' = PoolEntry(programs)
    /\ faults' = 0
    /\ UNCHANGED <<pureVars, invokeVars, envVars, cacheVars, poolVars>>
    /\ UNCHANGED <<cpc, attempt, ret, outcomes, sleeps, served, sem, srvLast, srvCount>>

\* seconds between the return of an invocation that refetched and the next
\* invocation, within the freshness window: none, and one short of the window
ReinvokeDelays == {0, CacheExpiry - 1}

\* line 99 and then line 68 again: the invocation returns programs, and
\* fetch_all_programs is invoked once more with the cache file as this one
\* left it; the API serves the listing from its start
Reinvoke ==
    /\ mpc = "fetched"
    /\ invocation < MaxInvocations
    /\ invocation' = invocation + 1
    /\ prior' = [returned |-> TRUE, programs |-> programs, at |-> now,
                 partial |-> pageRets # << >> /\ Last(pageRets).none]
    /\ \E e \in ReinvokeDelays : now' = now + e
    /\ cache' = cache
    /\ programs' = << >>
    /\ page' = 1 /\ requested' = << >> /\ pageRets' = << >> /\ pageSleeps' = 0
    /\ mpc' = "start"
    /\ faults' = 0 /\ srvLast' = 0 /\ srvCount' = 0
    /\ UNCHANGED <<pureVars, envVars, poolVars>>
    /\ UNCHANGED <<cpc, attempt, ret, outcomes, sleeps, served, sem>>

(***************************************************************************)
(* extract_domains_from_program, lines 121-140.                            *)
(***************************************************************************)
\* lines 122-123: program.get('attributes', {}).get('handle') is truthy
HasHandle(program) == program.hasAttributes /\ program.hasHandle

\* line 132: scope.get('attributes', {}).get('asset_type') == 'URL'
IsUrlEntry(scope) == scope.hasAttributes /\ scope.asset_type = "URL"

\* line 133: scope['attributes']['asset_identifier'] raises KeyError
ExtractRaises(r) ==
    /\ ~r.none
    /\ \E k \in 1..Len(r.data) : IsUrlEntry(r.data[k]) /\ ~r.data[k].hasIdentifier

\* every hostname added to every set, empty or not, whatever its category
ExtractDomains_Uncategorized(r) ==
    LET hosts == {HostnameOf(r.data[k].asset_identifier) :
                    k \in {j \in 1..Len(r.data) : IsUrlEntry(r.data[j])}}
    IN  [c \in Categories |-> hosts]

\* lines 126-140: the sets returned for the value r of make_api_request
ExtractDomains(r) ==
    LET hosts == {HostnameOf(r.data[k].asset_identifier) :
                    k \in {j \in 1..Len(r.data) : IsUrlEntry(r.data[j])}}
    IN  [c \in Categories |-> {h \in hosts : h # << >> /\ CategoryOf(h) = c}]

(***************************************************************************)
(* main, lines 142-186, from the worker pool on.                           *)
(***************************************************************************)
\* assignment in place of update
Merge_Overwrite(all, domains) == domains

\* lines 161-162: all_domains[category].update(domains[category])
Merge(all, domains) == [c \in Categories |-> all[c] \cup domains[c]]

Finished(i) == tstate[i] \in {"done", "raised"}

\* lines 156-157: executor.submit for the next program
Submit ==
    /\ mpc = "submit"
    /\ nsub < Len(programs)
    /\ nsub' = nsub + 1
    /\ tstate' = [tstate EXCEPT ![nsub + 1] = "queued"]
    /\ mpc' = IF nsub + 1 = Len(programs) THEN "collect" ELSE "submit"
    /\ UNCHANGED <<pureVars, invokeVars, envVars, cacheVars, fetchVars, callVars>>
    /\ UNCHANGED <<tres, completed, merged, all_domains, written>>

\* a worker takes task i from the queue and runs lines 122-128
TaskStart(i) ==
    /\ tstate[i] = "queued"
    /\ Cardinality({j \in Tasks : tstate[j] = "running"}) < MAX_WORKERS
    /\ IF HasHandle(programs[i])
       THEN /\ tstate' = [tstate EXCEPT ![i] = "running"]
            /\ StartCall(i)
            /\ UNCHANGED <<tres, completed>>
       ELSE /\ tstate' = [tstate EXCEPT ![i] = "done"]
            /\ tres' = [tres EXCEPT ![i] = EmptyDomains]
            /\ completed' = Append(completed, i)
            /\ UNCHANGED callVars
    /\ UNCHANGED <<pureVars, invokeVars, envVars, cacheVars, fetchVars, mpc>>
    /\ UNCHANGED <<nsub, merged, all_domains, written>>

\* the worker adds its hostnames to the global sets itself
TaskFinish_WritesGlobal(i) ==
    /\ tstate[i] = "running"
    /\ cpc[i] = "ret"
    /\ IF ExtractRaises(ret[i])
       THEN /\ tstate' = [tstate EXCEPT ![i] = "raised"]
            /\ UNCHANGED <<tres, all_domains>>
       ELSE /\ tstate' = [tstate EXCEPT ![i] = "done"]
            /\ tres' = [tres EXCEPT ![i] = ExtractDomains(ret[i])]
            /\ all_domains' = Merge(all_domains, ExtractDomains(ret[i]))
    /\ completed' = Append(completed, i)
    /\ EndCall(i)
    /\ UNCHANGED <<pureVars, invokeVars, envVars, cacheVars, fetchVars, mpc>>
    /\ UNCHANGED <<nsub, merged, written>>

\* the worker runs lines 130-140 on the value the call returned; the future
\* completes with the sets or with the exception raised
TaskFinish(i) ==
    /\ tstate[i] = "running"
    /\ cpc[i] = "ret"
    /\ IF ExtractRaises(ret[i])
       THEN /\ tstate' = [tstate EXCEPT ![i] = "raised"]
            /\ UNCHANGED tres
       ELSE /\ tstate' = [tstate EXCEPT ![i] = "done"]
            /\ tres' = [tres EXCEPT ![i] = ExtractDomains(ret[i])]
    /\ completed' = Append(completed, i)
    /\ EndCall(i)
    /\ UNCHANGED <<pureVars, invokeVars, envVars, cacheVars, fetchVars, mpc>>
    /\ UNCHANGED <<nsub, merged, all_domains, written>>

\* lines 159-162: as_completed yields the next finished future; future.result()
\* returns its sets, which are merged, or raises its exception
Collect ==
    /\ mpc = "collect"
    /\ merged < Len(completed)
    /\ LET i == completed[merged + 1]
       IN  IF tstate[i] = "raised"
           THEN /\ mpc' = "shutdown_error"
                /\ UNCHANGED all_domains
           ELSE /\ mpc' = mpc
                /\ all_domains' = Merge(all_domains, tres[i])
    /\ merged' = merged + 1
    /\ UNCHANGED <<pureVars, invokeVars, envVars, cacheVars, fetchVars, callVars>>
    /\ UNCHANGED <<nsub, tstate, tres, completed, written>>

\* the exception leaves the with block: the executor waits for every task, then
\* the exception ends main
AbortAfterShutdown ==
    /\ mpc = "shutdown_error"
    /\ \A i \in 1..Len(programs) : Finished(i)
    /\ mpc' = "task_error"
    /\ UNCHANGED <<pureVars, invokeVars, envVars, cacheVars, fetchVars, poolVars, callVars>>

\* lines 172-186: every future was taken; the with block ends and the three
\* files are written
WriteOutput ==
    /\ mpc = "collect"
    /\ merged = Len(programs)
    /\ written' = TRUE
    /\ mpc' = "done"
    /\ UNCHANGED <<pureVars, invokeVars, envVars, cacheVars, fetchVars, callVars>>
    /\ UNCHANGED <<nsub, tstate, tres, completed, merged, all_domains>>

(***************************************************************************)
(* Specifications.                                                         *)
(***************************************************************************)
Next ==
    \/ LoadCache
    \/ LoadCacheFails
    \/ BeginRefetch
    \/ RequestPage
    \/ PageReturn
    \/ SaveCache
    \/ ReturnPrograms
    \/ Submit
    \/ Collect
    \/ AbortAfterShutdown
    \/ WriteOutput
    \/ \E t \in Threads : Acquire(t)
    \/ \E t \in Threads : Get(t)
    \/ \E t \in Threads : Wake(t)
    \/ \E i \in Tasks : TaskStart(i)
    \/ \E i \in Tasks : TaskFinish(i)

Spec == Init /\ [][Next]_vars

\* The process keeps running: some thread that can take a step takes one.
FairSpec == Init /\ [][Next]_vars /\ WF_vars(Next)

\* fetch_all_programs alone, also against the stub of the end-to-end case
InitFetch ==
    /\ cache \in InitialCaches \cup ExpiredCaches
    /\ InitCommon
    /\ input_domain = << >>
    /\ \/ rateLimited \in BOOLEAN /\ stub = "free"
       \/ rateLimited = FALSE /\ stub = "sized"

NextFetch ==
    \/ LoadCache
    \/ LoadCacheFails
    \/ BeginRefetch
    \/ RequestPage
    \/ PageReturn
    \/ SaveCache
    \/ ReturnPrograms
    \/ Reinvoke
    \/ Acquire(MainThread)
    \/ Get(MainThread)
    \/ Wake(MainThread)

FetchSpec == InitFetch /\ [][NextFetch]_vars

(***************************************************************************)
(* categorize_domain and is_cache_valid on their own: each is applied once *)
(* to an argument chosen at the start.                                     *)
(***************************************************************************)
\* the characters that decide lines 103-119: the wildcard, the label
\* separator, the port separator and an ordinary character
Alphabet == {"*", ".", ":", "a"}
Hostnames == UNION {[1..k -> Alphabet] : k \in 0..MaxLen}

\* absent, new, and aged one second less than, exactly, and one second more
\* than the window
AgedCaches ==
    {NoCache}
    \cup {CacheFile(NowAtStart - age, TRUE, << >>) :
            age \in {0, CacheExpiry - 1, CacheExpiry, CacheExpiry + 1}}

InitPure ==
    /\ \/ input_domain \in Hostnames /\ cache = NoCache
       \/ input_domain = << >> /\ cache \in AgedCaches
    /\ InitCommon
    /\ rateLimited = FALSE
    /\ stub = "free"

\* category = categorize_domain(domain), line 136
Categorize ==
    /\ category = "pending"
    /\ category' = categorize_domain(input_domain)
    /\ UNCHANGED <<input_domain, valid, invokeVars, envVars, cacheVars, fetchVars, poolVars,
                   callVars, mpc>>

\* is_cache_valid(PROGRAMS_CACHE_FILE), line 68
CheckCache ==
    /\ valid = "pending"
    /\ valid' = IF is_cache_valid(cache, now) THEN "true" ELSE "false"
    /\ UNCHANGED <<input_domain, category, invokeVars, envVars, cacheVars, fetchVars, poolVars,
                   callVars, mpc>>

NextPure == Categorize \/ CheckCache

PureSpec == InitPure /\ [][NextPure]_vars

(***************************************************************************)
(* Vocabulary of the properties.                                           *)
(***************************************************************************)
AtReturn(t) == cpc[t] = "ret"
Is429(kind) == kind \in {"r429", "r429bad"}
Sleeps(kind) == kind \in {"r429", "r429bad", "exc"}

\* the call of t got 429 and nothing else, at least once
Only429(t) ==
    /\ outcomes[t] # << >>
    /\ \A k \in 1..Len(outcomes[t]) : Is429(outcomes[t][k])

\* the call of t got one or more responses of the kinds in K, then a 200
ThenOk(t, K) ==
    /\ Len(outcomes[t]) >= 2
    /\ Last(outcomes[t]) = "ok200"
    /\ \A k \in 1..(Len(outcomes[t]) - 1) : outcomes[t][k] \in K

\* the call of t met a network-level failure and nothing else, at least once
OnlyNetworkFailures(t) ==
    /\ outcomes[t] # << >>
    /\ \A k \in 1..Len(outcomes[t]) : outcomes[t][k] = "exc"

\* the waits time.sleep(retry_after) can take, in ticks
RetryAfterWaits == {RetryAfterTicks(ra) : ra \in RetryAfterSeconds}

\* k times the base delay, for k = 1..n
Backoffs(n) == [k \in 1..n |-> k * RATE_LIMIT_DELAY]

\* the cache file was valid when the run began
FreshAtStart == cache0.exists /\ (NowAtStart - cache0.mtime) < CacheExpiry

\* main is inside the refetch of fetch_all_programs (lines 73-99)
InRefetch == mpc \in {"page_call", "page_wait", "save", "fetched"}
Paginated == mpc \in {"save", "fetched"}

\* the items of the pages in rets, in page order
RECURSIVE ConcatData(_)
ConcatData(rets) ==
    IF rets = << >> THEN << >> ELSE rets[1].data \o ConcatData(Tail(rets))

\* a returned page after which the loop goes on: items and a next link
Continuing(r) == ~r.none /\ r.data # << >> /\ r.hasNext

C2_ExtractNeverRaises ==
    /\ \A i \in Tasks : tstate[i] # "raised"
    /\ mpc \notin {"shutdown_error", "task_error"}

(***************************************************************************)
(* C3.  As claimed: a cache file that is fresh but cannot be read or       *)
(* decoded is handled like an absent one, so the run goes on to refetch    *)
(* and is not ended by the failure.                                        *)
(***************************************************************************)
C3_UnreadableCacheRefetches ==
    (FreshAtStart /\ ~cache0.decodable) => mpc # "cache_error"

(***************************************************************************)
(* C4.  When the cache file is valid as the run begins, fetch_all_programs *)
(* issues no HTTP request and leaves the file and its modification time as *)
(* they were, and the list it returns is the content of the snapshot.      *)
(***************************************************************************)
C4_ValidCacheNoNetwork ==
    FreshAtStart =>
       /\ requested = << >>
       /\ cpc[MainThread] = "idle" /\ outcomes[MainThread] = << >>
       /\ ~InRefetch
       /\ cache = cache0
       /\ (cache0.decodable /\ mpc # "start") => programs = cache0.programs

C4_Witness ==
    /\ FreshAtStart /\ cache0.decodable
    /\ mpc = "submit"
    /\ Len(programs) = 2 /\ programs = cache0.programs
    /\ cache = cache0

(***************************************************************************)
(* C5.  Without a valid cache the pages are requested in the order 1, 2,   *)
(* 3, ...; the accumulator is the concatenation, in page order, of the     *)
(* items of the pages returned; a further page is requested only after a   *)
(* page with items and a next link; and against the stub that serves 100   *)
(* and 37 programs and then a terminal page the list has 137 programs      *)
(* after three requests.                                                   *)
(***************************************************************************)
C5_PaginationOrder ==
    InRefetch =>
       /\ requested = [k \in 1..Len(requested) |-> k]
       /\ Len(pageRets) = IF mpc = "page_wait" THEN Len(requested) - 1 ELSE Len(requested)
       /\ programs = ConcatData(pageRets)
       /\ \A j \in 1..Len(pageRets) :
             Continuing(pageRets[j]) <=> (j < Len(requested) \/ mpc = "page_call")
       /\ (Paginated /\ stub = "sized" /\ \A j \in 1..Len(pageRets) : ~pageRets[j].none) =>
             /\ Len(programs) = 137
             /\ requested = <<1, 2, 3>>
       /\ mpc = "fetched" => cache.programs = programs

C5_Witness ==
    /\ stub = "sized" /\ mpc = "fetched"
    /\ Len(programs) = 137
    /\ requested = <<1, 2, 3>>
    /\ faults > 0

(***************************************************************************)
(* C6.  When the call for page k returns None, the loop ends: page k is    *)
(* the last page requested, and the list returned (and cached) is the      *)
(* concatenation of the items of pages 1..k-1.                             *)
(***************************************************************************)
C6_FailedPageStops ==
    \A k \in 1..Len(pageRets) :
       pageRets[k].none =>
          /\ Paginated
          /\ k = Len(pageRets) /\ k = Len(requested)
          /\ cpc[MainThread] = "idle"
          /\ programs = ConcatData(SubSeq(pageRets, 1, k - 1))
          /\ mpc = "fetched" => cache.programs = programs

C6_Witness ==
    /\ mpc = "fetched"
    /\ Len(pageRets) = 2 /\ pageRets[2].none
    /\ Len(programs) = 2
    /\ ~rateLimited

(***************************************************************************)
(* C7.  As claimed: a call all of whose attempts end in a network-level    *)
(* failure makes at most MAX_RETRIES attempts, sleeps k times the base     *)
(* delay after the k-th failure and only between attempts, and returns     *)
(* None; a 200 within the ceiling is returned.                             *)
(***************************************************************************)
C7_Original ==
    \A t \in Threads :
       AtReturn(t) =>
          /\ OnlyNetworkFailures(t) =>
                /\ Len(outcomes[t]) <= MAX_RETRIES
                /\ ret[t].none
                /\ sleeps[t] = Backoffs(Len(outcomes[t]) - 1)
          /\ ThenOk(t, {"exc"}) =>
                /\ ret[t] = served[t] /\ ~ret[t].none
                /\ sleeps[t] = Backoffs(Len(outcomes[t]) - 1)

(***************************************************************************)
(* C7, amended.  Such a call sleeps k times the base delay after the k-th  *)
(* failed attempt, the last one included: it returns None after exactly    *)
(* MAX_RETRIES attempts and MAX_RETRIES sleeps.  A 200 that follows m      *)
(* failures, m < MAX_RETRIES, is returned after m sleeps.                  *)
(***************************************************************************)
C7_BackoffAfterEveryFailure ==
    \A t \in Threads :
       /\ (cpc[t] = "backoff" /\ OnlyNetworkFailures(t)) =>
              sleeps[t] = Backoffs(Len(outcomes[t]))
       /\ (AtReturn(t) /\ OnlyNetworkFailures(t)) =>
              /\ Len(outcomes[t]) = MAX_RETRIES
              /\ ret[t].none
              /\ sleeps[t] = Backoffs(MAX_RETRIES)
       /\ (AtReturn(t) /\ ThenOk(t, {"exc"})) =>
              /\ ret[t] = served[t] /\ ~ret[t].none
              /\ Len(outcomes[t]) <= MAX_RETRIES
              /\ sleeps[t] = Backoffs(Len(outcomes[t]) - 1)

C7_Witness ==
    \E t \in Threads :
       /\ AtReturn(t) /\ OnlyNetworkFailures(t) /\ ret[t].none
       /\ sleeps[t] = Backoffs(MAX_RETRIES)

(***************************************************************************)
(* C8.  A status of 400 or more other than 429 ends the call at once: the  *)
(* caller has returned None in the step that received it, whatever the     *)
(* attempt; that response is the last one of the call and no sleep follows *)
(* it (the sleeps of the call are those of its earlier responses).         *)
(***************************************************************************)
C8_ErrorStatusReturnsNone ==
    \A t \in Threads :
       \A k \in 1..Len(outcomes[t]) :
          outcomes[t][k] = "err" =>
             /\ AtReturn(t)
             /\ ret[t].none
             /\ k = Len(outcomes[t])
             /\ Len(sleeps[t]) = Cardinality({j \in 1..(k - 1) : Sleeps(outcomes[t][j])})

C8_Witness ==
    \E t \in Threads :
       /\ AtReturn(t)
       /\ Len(outcomes[t]) = MAX_RETRIES
       /\ Last(outcomes[t]) = "err"
       /\ ret[t].none

(***************************************************************************)
(* C9.  Under FairSpec every run whose input is well formed reaches the    *)
(* output step with every submitted task completed and one result merged   *)
(* per program, also when the API answers 429 to every request.  The input *)
(* is malformed when the cache file is fresh but undecodable, or a listed  *)
(* program has a URL-typed scope entry without an asset identifier.        *)
(***************************************************************************)
MalformedInput ==
    \/ FreshAtStart /\ ~cache0.decodable
    \/ \E i \in 1..Len(programs) :
          /\ HasHandle(programs[i])
          /\ ExtractRaises(Body(ScopeOf(programs[i].handle), FALSE))

RunComplete ==
    /\ mpc = "done" /\ written
    /\ \A i \in 1..Len(programs) : tstate[i] = "done"
    /\ merged = Len(programs)
    /\ Len(completed) = Len(programs)
    /\ \A i \in 1..Len(programs) : \E k \in 1..Len(completed) : completed[k] = i

C9_RunTerminates == <>(RunComplete \/ MalformedInput)

C9_Witness ==
    /\ RunComplete /\ ~MalformedInput
    /\ rateLimited
    /\ Len(programs) = 2
    /\ \A i \in 1..2 : HasHandle(programs[i])

(***************************************************************************)
(* C10.  When main reaches the output step, each of the three global sets  *)
(* is the union of that category's sets over all programs, in whatever     *)
(* order the tasks completed.                                              *)
(***************************************************************************)
C10_MergeIsUnion ==
    mpc = "done" =>
       \A c \in Categories :
          all_domains[c] = UNION {tres[i][c] : i \in 1..Len(programs)}

C10_Witness ==
    /\ mpc = "done"
    /\ completed = <<2, 1>>
    /\ \E c \in Categories : tres[1][c] # {} /\ tres[2][c] # {} /\ tres[1][c] # tres[2][c]
    /\ \E c \in Categories : tres[1][c] = {} /\ tres[2][c] # {}

(***************************************************************************)
(* C11.  After any sequence of extractor completions and merges the global *)
(* result sets are pairwise disjoint and none of them holds the empty      *)
(* string; the same is true of the sets every extractor returned.          *)
(***************************************************************************)
PairwiseDisjoint(d) ==
    \A c1 \in Categories : \A c2 \in Categories \ {c1} : d[c1] \cap d[c2] = {}
NoEmptyString(d) == \A c \in Categories : << >> \notin d[c]

C11_ResultSetsDisjoint ==
    /\ PairwiseDisjoint(all_domains) /\ NoEmptyString(all_domains)
    /\ \A i \in Tasks : PairwiseDisjoint(tres[i]) /\ NoEmptyString(tres[i])

\* both programs merged, every category populated, and the scope with the
\* host-less URL among those extracted
C11_Witness ==
    /\ merged = 2
    /\ \A c \in Categories : all_domains[c] # {}
    /\ \E i \in 1..Len(programs) :
          /\ programs[i].handle = 2 /\ tres[i] # EmptyDomains
          /\ HostnameOf(UrlNoHost) = << >>

(***************************************************************************)
(* C12.  As claimed: the string the extractor adds for a URL-typed entry   *)
(* is the bare lowercase hostname, without scheme, path or port; the entry *)
(* https://Foo.EXAMPLE.com:443/path yields foo.example.com in the standard *)
(* set.                                                                    *)
(***************************************************************************)
FooHost == <<"f","o","o",".","e","x","a","m","p","l","e",".","c","o","m">>

C12_BareHostname ==
    \A i \in Tasks :
       (tstate[i] = "done" /\ tres[i] # EmptyDomains) =>
          /\ \A c \in Categories : \A h \in tres[i][c] :
                ~Contains(h, ":") /\ ~Contains(h, "/") /\ h = Lower(h)
          /\ programs[i].handle = 1 => FooHost \in tres[i]["standard"]

(***************************************************************************)
(* C13.  As claimed: a hostname that starts with "*." and holds a second   *)
(* "*" anywhere after the first label is classified wildcard_tld, and a    *)
(* hostname classified simple_wildcard holds exactly one "*", as its first *)
(* label.                                                                  *)
(***************************************************************************)
SecondWildcard(h) ==
    /\ StartsWith(h, <<"*", ".">>)
    /\ \E k \in 3..Len(h) : h[k] = "*"

C13_SecondWildcardIsTld ==
    category # "pending" =>
       /\ SecondWildcard(input_domain) => category = "wildcard_tld"
       /\ category = "simple_wildcard" =>
             /\ Cardinality({k \in 1..Len(input_domain) : input_domain[k] = "*"}) = 1
             /\ StartsWith(input_domain, <<"*", ".">>)

(***************************************************************************)
(* C14.  is_cache_valid answers true exactly when the file exists and the  *)
(* clock minus its modification time is less than 30 days (2592000         *)
(* seconds): true at one second less, false at exactly 30 days and at one  *)
(* second more, false for an absent file.                                  *)
(***************************************************************************)
C14_CacheValidBoundary ==
    valid # "pending" =>
       /\ valid = "true" <=> (cache.exists /\ now - cache.mtime < 2592000)
       /\ (cache.exists /\ now - cache.mtime = 2592000 - 1) => valid = "true"
       /\ (cache.exists /\ now - cache.mtime = 2592000) => valid = "false"
       /\ (cache.exists /\ now - cache.mtime = 2592000 + 1) => valid = "false"
       /\ ~cache.exists => valid = "false"

C14_Witness ==
    /\ valid = "true"
    /\ cache.exists /\ now - cache.mtime = 2592000 - 1

(***************************************************************************)
(* C15.  In every reachable state the calls that hold an admission slot    *)
(* (those past the acquire and not yet returned) are at most the cap, 10,  *)
(* and the semaphore counts exactly the slots not held; a caller that got  *)
(* a response holds a slot or has returned; a call that has returned, by   *)
(* whatever path, has given its slot back, so that with no call in         *)
(* progress the semaphore is at its initial value.                         *)
(***************************************************************************)
Holding == {"get", "sleep429", "backoff"}
Holders == {t \in Threads : cpc[t] \in Holding}

C15_SlotsBalanced ==
    /\ SemaphoreCap = 10
    /\ Cardinality(Holders) <= SemaphoreCap
    /\ sem = SemaphoreCap - Cardinality(Holders)
    /\ \A t \in Threads : outcomes[t] # << >> => cpc[t] \in Holding \cup {"ret"}
    /\ (\A t \in Threads : cpc[t] \in {"idle", "ret"}) => sem = SemaphoreCap

\* two calls have returned, one on a 200 and one on a status >= 400, after a
\* state in which both held a slot
C15_Witness ==
    /\ sem = SemaphoreCap
    /\ \E t1 \in Tasks : \E t2 \in Tasks :
          /\ cpc[t1] = "ret" /\ outcomes[t1] = <<"ok200">>
          /\ cpc[t2] = "ret" /\ outcomes[t2] = <<"err">>

(***************************************************************************)
(* C16.  Every step that changes a global result set is a merge by the     *)
(* main thread: main is in its loop over as_completed, the step takes      *)
(* exactly one completed future and adds that future's sets, and no worker *)
(* moves in it.  Every step that changes a per-program result is the       *)
(* completion of that one program's worker and leaves the global sets and  *)
(* the other programs' results alone.                                      *)
(***************************************************************************)
MergeStep ==
    /\ mpc = "collect"
    /\ merged < Len(completed)
    /\ merged' = merged + 1
    /\ \A c \in Categories :
          all_domains'[c] = all_domains[c] \cup tres[completed[merged + 1]][c]
    /\ tstate' = tstate /\ tres' = tres /\ cpc' = cpc /\ completed' = completed

WorkerStep ==
    \E i \in Tasks :
       /\ tstate[i] \in {"queued", "running"} /\ Finished(i)'
       /\ \A j \in Tasks \ {i} : tres'[j] = tres[j] /\ tstate'[j] = tstate[j]
       /\ all_domains' = all_domains
       /\ merged' = merged

C16_OnlyMainMerges ==
    [][ /\ all_domains' # all_domains => MergeStep
        /\ merged' # merged => (merged' = merged + 1 /\ mpc = "collect")
        /\ tres' # tres => WorkerStep ]_vars

\* main has merged one program's sets while the other program's worker is
\* still inside its request
C16_Witness ==
    /\ merged = 1 /\ all_domains # EmptyDomains
    /\ \E i \in Tasks : tstate[i] = "running" /\ cpc[i] \in {"get", "sleep429", "backoff"}

(***************************************************************************)
(* C17.  Whatever the responses, a call issues at most MAX_RETRIES = 3     *)
(* GETs: attempt counts the GETs issued, a caller about to issue one has   *)
(* issued fewer than 3, and after the third it only sleeps and returns.    *)
(* The call sleeps once for every 429 and every network failure and not at *)
(* all for a status below 400 other than 200.  It returns a value other    *)
(* than None only when its last GET answered 200, and then that body; it   *)
(* returns None only on a status >= 400 or after 3 GETs.                   *)
(***************************************************************************)
C17_AtMostThreeGets ==
    /\ MAX_RETRIES = 3
    /\ \A t \in Threads :
          /\ Len(outcomes[t]) <= MAX_RETRIES
          /\ cpc[t] = "get" =>
                attempt[t] = Len(outcomes[t]) /\ Len(outcomes[t]) < MAX_RETRIES
          /\ Len(outcomes[t]) = MAX_RETRIES => cpc[t] \in {"sleep429", "backoff", "ret"}
          /\ Len(sleeps[t]) =
                Cardinality({k \in 1..Len(outcomes[t]) : Sleeps(outcomes[t][k])})
          /\ AtReturn(t) =>
                /\ outcomes[t] # << >>
                /\ ~ret[t].none =>
                      Last(outcomes[t]) = "ok200" /\ ret[t] = served[t]
                /\ ret[t].none =>
                      Last(outcomes[t]) = "err" \/ Len(outcomes[t]) = MAX_RETRIES
                /\ \A k \in 1..(Len(outcomes[t]) - 1) :
                      outcomes[t][k] \notin {"ok200", "err"}

\* a call that met a 429, a status below 400 other than 200 and a network
\* failure, and returned None after the third GET
C17_Witness ==
    \E t \in Threads :
       /\ AtReturn(t) /\ ret[t].none
       /\ Len(outcomes[t]) = MAX_RETRIES
       /\ \E k \in 1..MAX_RETRIES : outcomes[t][k] = "r429"
       /\ \E k \in 1..MAX_RETRIES : outcomes[t][k] = "other"
       /\ \E k \in 1..MAX_RETRIES : outcomes[t][k] = "exc"

(***************************************************************************)
(* C18.  When an invocation that did not use the cache is about to return, *)
(* the cache file holds exactly the list it returns, also a partial or     *)
(* empty one, and the file's modification time is the time of the write.   *)
(* An invocation that follows within the freshness window returns that     *)
(* same list, issues no HTTP request and leaves the file as it was.        *)
(***************************************************************************)
C18_PartialListCached ==
    /\ mpc = "fetched" => cache = CacheFile(now, TRUE, programs)
    /\ (invocation > 1 /\ now - prior.at < CacheExpiry) =>
          /\ prior.returned
          /\ requested = << >> /\ ~InRefetch
          /\ cpc[MainThread] = "idle" /\ outcomes[MainThread] = << >>
          /\ cache = CacheFile(prior.at, TRUE, prior.programs)
          /\ mpc # "start" => programs = prior.programs

\* the first invocation stopped on a failed page after one program; the
\* second, one second before expiry, has returned that list from the cache
C18_Witness ==
    /\ invocation = 2 /\ prior.partial
    /\ Len(prior.programs) = 1
    /\ now - prior.at = CacheExpiry - 1
    /\ mpc = "submit" /\ programs = prior.programs

(***************************************************************************)
(* C19.  A call acquires its slot exactly once, before its first GET, and  *)
(* holds it until it returns: a caller enters the acquire only from        *)
(* outside a call, leaves it only for its first GET (no response yet,      *)
(* attempt 0) taking one slot; every step of a caller from one holding     *)
(* state to another (GET to sleep, sleep to the next GET, GET to GET)      *)
(* leaves the semaphore alone; a caller leaves the holding states only by  *)
(* returning, which gives one slot back; and while a caller sleeps, after  *)
(* a 429 or in a backoff, its slot is taken.                               *)
(***************************************************************************)
Moved(t) ==
    \/ cpc'[t] # cpc[t]
    \/ attempt'[t] # attempt[t]
    \/ outcomes'[t] # outcomes[t]

C19_SlotHeldThroughout ==
    [][ \A t \in Threads :
          /\ (cpc[t] # "acquire" /\ cpc'[t] = "acquire") => cpc[t] = "idle"
          /\ (cpc[t] = "acquire" /\ cpc'[t] # "acquire") =>
                /\ cpc'[t] = "get" /\ sem' = sem - 1
                /\ outcomes[t] = << >> /\ attempt[t] = 0
          /\ (cpc[t] \in Holding /\ Moved(t) /\ cpc'[t] \in Holding) => sem' = sem
          /\ (cpc[t] \in Holding /\ cpc'[t] \notin Holding) =>
                cpc'[t] = "ret" /\ sem' = sem + 1
          /\ cpc[t] \in {"sleep429", "backoff"} =>
                sem = SemaphoreCap - Cardinality(Holders) /\ t \in Holders ]_vars

\* a caller about to issue its third GET, after a Retry-After sleep and a
\* backoff sleep, while another call is in progress
C19_Witness ==
    \E t \in Tasks :
       /\ cpc[t] = "get" /\ attempt[t] = 2
       /\ Len(sleeps[t]) = 2
       /\ \E k \in 1..2 : outcomes[t][k] = "r429"
       /\ sem = SemaphoreCap - 2

(***************************************************************************)
(* C20.  The threads inside make_api_request or waiting to enter it are    *)
(* never more than the cap: the main thread makes its calls only before    *)
(* any task is submitted, afterwards only running workers call, at most    *)
(* MAX_WORKERS of them, and MAX_WORKERS is not above the cap.  So a caller *)
(* at the acquire always finds a free slot.                                *)
(***************************************************************************)
InCall == {t \in Threads : cpc[t] \in {"acquire"} \cup Holding}
Running == {i \in Tasks : tstate[i] = "running"}

=============================================================================
